---- MODULE Spec2Model ----
(***************************************************************************)
(* Model of the two analysis scripts analyze_campaigns.py and              *)
(* analyze_customers.py.  Each script is a batch run:                      *)
(*     __main__ -> load_and_clean_data -> calculate_metrics                *)
(*              -> generate_visualizations                                 *)
(* An uncaught Python exception ends the run (pc = "crashed").             *)
(*                                                                         *)
(* Numbers: the columns hold integers; a pandas/numpy float result is an   *)
(* exact rational or one of nan, inf, -inf (numpy division by zero gives   *)
(* these with a warning, it does not raise).  NA stands for a missing cell *)
(* (NaN).  A date cell is [fmt, t]: fmt is the spelling of the text in the *)
(* CSV ("padded", "unpadded", "bad" for unparseable text, "NaT" for an     *)
(* empty cell) or "ts" once pd.to_datetime has produced a Timestamp; t is  *)
(* the instant in units of 1/UnitsPerDay day.                              *)
(***************************************************************************)
EXTENDS Integers, Sequences, FiniteSets, TLC

VARIABLES script, fileExists, csv, pc, df, metrics, record, err, charts

vars == <<script, fileExists, csv, pc, df, metrics, record, err, charts>>

\* ------------------------------------------------------------------ bounds
MaxRows == 3

\* --------------------------------------------------------------- constants
UnitsPerDay == 2
ChurnDays == 180
HighQ == 8
MedQ == 5
NA == -99

NoMetrics == [none |-> TRUE]
NaT == [fmt |-> "NaT", t |-> 0]

\* ------------------------------------------------------------ float values
Abs(x) == IF x < 0 THEN -x ELSE x

RECURSIVE GCD(_, _)
GCD(a, b) == IF b = 0 THEN a ELSE GCD(b, a % b)

NaN == [k |-> "nan", n |-> 0, d |-> 1]
PosInf == [k |-> "inf", n |-> 1, d |-> 1]
NegInf == [k |-> "inf", n |-> -1, d |-> 1]

\* the rational n/d (d # 0) in lowest terms with a positive denominator
Rat(n, d) ==
    LET g == GCD(Abs(n), Abs(d))
        s == IF d < 0 THEN -1 ELSE 1
    IN  [k |-> "fin", n |-> (s * n) \div g, d |-> (s * d) \div g]

\* numpy true division of two column sums
NumpyDivZeroAsZero(a, b) == IF b = 0 THEN Rat(0, 1) ELSE Rat(a, b)

NumpyDiv(a, b) ==
    IF b # 0 THEN Rat(a, b)
    ELSE IF a = 0 THEN NaN
    ELSE IF a > 0 THEN PosInf
    ELSE NegInf

\* x * 100
Times100(x) == IF x.k = "fin" THEN Rat(100 * x.n, x.d) ELSE x

\* a < b on floats; every comparison with nan is False
FloatLT(a, b) ==
    /\ a.k # "nan"
    /\ b.k # "nan"
    /\ IF a.k = "inf" THEN (a.n < 0 /\ ~(b.k = "inf" /\ b.n < 0))
       ELSE IF b.k = "inf" THEN b.n > 0
       ELSE a.n * b.d < b.n * a.d

FloatGE(a, b) == a.k # "nan" /\ b.k # "nan" /\ ~FloatLT(a, b)

\* --------------------------------------------------------- column helpers
RECURSIVE SumSkipNA(_)
SumSkipNA(s) ==
    IF s = <<>> THEN 0
    ELSE (IF Head(s) = NA THEN 0 ELSE Head(s)) + SumSkipNA(Tail(s))

RECURSIVE SetToSortedSeq(_)
SetToSortedSeq(S) ==
    IF S = {} THEN <<>>
    ELSE LET m == CHOOSE x \in S : \A y \in S : x <= y
         IN  <<m>> \o SetToSortedSeq(S \ {m})

\* the distinct elements of s, in order of first appearance
RECURSIVE Unique(_)
Unique(s) ==
    IF s = <<>> THEN <<>>
    ELSE LET r == Unique(SubSeq(s, 1, Len(s) - 1))
             x == s[Len(s)]
         IN  IF \E i \in 1..Len(r) : r[i] = x THEN r ELSE Append(r, x)

Range(s) == {s[i] : i \in 1..Len(s)}

\* pd.to_datetime on one cell; "bad" text is rejected by the caller
ToDatetime(c) == IF c.fmt = "NaT" THEN NaT ELSE [fmt |-> "ts", t |-> c.t]

\* ======================================================= analyze_campaigns
CampaignDropNa(rows) ==
    SelectSeq(rows, LAMBDA r : r.Clicks # NA /\ r.Spend # NA)

CampaignFilterSpendNonNegative(rows) == SelectSeq(rows, LAMBDA r : r.Spend >= 0)

CampaignFilterSpend(rows) == SelectSeq(rows, LAMBDA r : r.Spend > 0)

\* load_and_clean_data on the rows read from the file
CampaignClean(rows) ==
    LET kept == CampaignFilterSpend(CampaignDropNa(rows))
    IN  IF \E i \in 1..Len(kept) : kept[i].Date.fmt = "bad"
        THEN [ok |-> FALSE, df |-> <<>>]
        ELSE [ok |-> TRUE,
              df |-> [i \in 1..Len(kept) |->
                         [kept[i] EXCEPT !.Date = ToDatetime(kept[i].Date)]]]

Col(rows, name) == [i \in 1..Len(rows) |-> rows[i][name]]

\* the group keys of df.groupby('Campaign ID'): NaN keys are dropped and the
\* groups come out sorted by key
GroupKeysUnsorted(ids) == SelectSeq(Unique(ids), LAMBDA x : x # NA)

GroupKeys(ids) == SetToSortedSeq(Range(ids) \ {NA})

\* campaign_stats['ROI'] of one group
GroupRoiGross(spend, revenue) == Times100(NumpyDiv(revenue, spend))

GroupRoi(spend, revenue) == Times100(NumpyDiv(revenue - spend, spend))

\* campaign_stats: one row per Campaign ID with summed Spend, Revenue and ROI
CampaignStats(rows) ==
    LET keys == GroupKeys(Col(rows, "CampaignID"))
    IN  [j \in 1..Len(keys) |->
           LET grp == SelectSeq(rows, LAMBDA r : r.CampaignID = keys[j])
               sp  == SumSkipNA(Col(grp, "Spend"))
               rv  == SumSkipNA(Col(grp, "Revenue"))
           IN  [CampaignID |-> keys[j], Spend |-> sp, Revenue |-> rv,
                ROI |-> GroupRoi(sp, rv)]]

\* Series.idxmax / idxmin: the first position holding the extreme value
RECURSIVE IdxMax(_)
IdxMax(s) ==
    IF Len(s) = 1 THEN 1
    ELSE LET i == IdxMax(SubSeq(s, 1, Len(s) - 1))
         IN  IF FloatLT(s[i], s[Len(s)]) THEN Len(s) ELSE i

\* ctr = (total_clicks / total_impressions) * 100
CtrSwapped(total_clicks, total_impressions) ==
    Times100(NumpyDiv(total_impressions, total_clicks))

Ctr(total_clicks, total_impressions) ==
    Times100(NumpyDiv(total_clicks, total_impressions))

RECURSIVE IdxMin(_)
IdxMin(s) ==
    IF Len(s) = 1 THEN 1
    ELSE LET i == IdxMin(SubSeq(s, 1, Len(s) - 1))
         IN  IF FloatLT(s[Len(s)], s[i]) THEN Len(s) ELSE i

\* campaign_stats.loc[campaign_stats['ROI'].idxmax()] and ...idxmin()
TopCampaign(rows) ==
    LET stats == CampaignStats(rows) IN stats[IdxMax(Col(stats, "ROI"))]

BottomCampaign(rows) ==
    LET stats == CampaignStats(rows) IN stats[IdxMin(Col(stats, "ROI"))]

CampaignMetrics(rows) ==
    LET total_impressions == SumSkipNA(Col(rows, "Impressions"))
        total_clicks      == SumSkipNA(Col(rows, "Clicks"))
        total_conversions == SumSkipNA(Col(rows, "Conversions"))
        total_spend       == SumSkipNA(Col(rows, "Spend"))
        total_revenue     == SumSkipNA(Col(rows, "Revenue"))
        cpl               == NumpyDiv(total_spend, total_conversions)
        top               == TopCampaign(rows)
        bottom            == BottomCampaign(rows)
    IN  [CTR               |-> Ctr(total_clicks, total_impressions),
         ConversionRate    |-> Times100(NumpyDiv(total_conversions, total_clicks)),
         CPL               |-> cpl,
         ROI               |-> Times100(NumpyDiv(total_revenue - total_spend, total_spend)),
         CAC               |-> cpl,
         TopCampaign       |-> top.CampaignID,
         TopCampaignROI    |-> top.ROI,
         BottomCampaign    |-> bottom.CampaignID,
         BottomCampaignROI |-> bottom.ROI]

\* -------------------------------------------------------------- the steps
\* __main__: the os.path.exists test of either script
Main ==
    /\ pc = "start"
    /\ pc' = IF fileExists THEN "load" ELSE "done"
    /\ UNCHANGED <<script, fileExists, csv, df, metrics, record, err, charts>>

CampaignLoadAndCleanDataSwallow ==
    /\ pc = "load"
    /\ script = "campaigns"
    /\ LET c == CampaignClean(csv)
       IN  /\ df' = IF c.ok THEN c.df ELSE CampaignFilterSpend(CampaignDropNa(csv))
           /\ pc' = "metrics"
           /\ err' = IF c.ok THEN "none" ELSE "to_datetime"
    /\ UNCHANGED <<script, fileExists, csv, metrics, record, charts>>

CampaignLoadAndCleanData ==
    /\ pc = "load"
    /\ script = "campaigns"
    /\ LET c == CampaignClean(csv)
       IN  /\ df' = c.df
           /\ pc' = IF c.ok THEN "metrics" ELSE "crashed"
           /\ err' = IF c.ok THEN "none" ELSE "to_datetime"
    /\ UNCHANGED <<script, fileExists, csv, metrics, record, charts>>

\* calculate_metrics: idxmax on an empty ROI column raises ValueError before
\* the metrics dict is built; otherwise the dict is built and dumped
CampaignCalculateMetrics ==
    /\ pc = "metrics"
    /\ script = "campaigns"
    /\ IF CampaignStats(df) = <<>>
       THEN /\ pc' = "crashed"
            /\ err' = "idxmax"
            /\ UNCHANGED <<metrics, record>>
       ELSE /\ metrics' = CampaignMetrics(df)
            /\ record' = metrics'
            /\ pc' = "viz"
            /\ UNCHANGED err
    /\ UNCHANGED <<script, fileExists, csv, df, charts>>

\* generate_visualizations: four chart files are saved.  The helper columns
\* it adds to df (Daily_Conv_Rate, Month) are read by nothing afterwards and
\* are not represented.
CampaignGenerateVisualizations ==
    /\ pc = "viz"
    /\ script = "campaigns"
    /\ charts' = 4
    /\ pc' = "done"
    /\ UNCHANGED <<script, fileExists, csv, df, metrics, record, err>>

\* ------------------------------------------------------------- input data
GoodDate == [fmt |-> "padded", t |-> 0]
BadDate  == [fmt |-> "bad", t |-> 0]

CampaignRow(d, id, im, cl, cv, sp, rv) ==
    [Date |-> d, CampaignID |-> id, Impressions |-> im, Clicks |-> cl,
     Conversions |-> cv, Spend |-> sp, Revenue |-> rv]

\* rows exercising the cleaning policy
CampaignRowsCleaning ==
    {CampaignRow(d, 1, 2, cl, 1, sp, 3) :
        d \in {GoodDate, BadDate}, cl \in {NA, 1}, sp \in {NA, -1, 0, 2}}

\* rows exercising the overall ratios
CampaignRowsRatios ==
    {CampaignRow(GoodDate, 1, im, cl, cv, 1, 1) :
        im \in {-1, 0, 1}, cl \in {-1, 0, 1}, cv \in {0, 1}}

\* rows exercising the per-campaign aggregates
CampaignRowsGroups ==
    {CampaignRow(GoodDate, id, 2, 1, 1, sr[1], sr[2]) :
        id \in {NA, 1, 2}, sr \in {<<1, 0>>, <<1, 2>>, <<2, 4>>}}

SeqsUpTo(S, n) == UNION {[1..k -> S] : k \in 0..n}

CampaignFiles ==
    SeqsUpTo(CampaignRowsCleaning, MaxRows)
        \cup SeqsUpTo(CampaignRowsRatios, MaxRows)
        \cup SeqsUpTo(CampaignRowsGroups, MaxRows)

InitRun ==
    /\ pc = "start"
    /\ df = <<>>
    /\ metrics = NoMetrics
    /\ record = NoMetrics
    /\ err = "none"
    /\ charts = 0

InitCampaign ==
    /\ script = "campaigns"
    /\ fileExists \in BOOLEAN
    /\ csv \in (IF fileExists THEN CampaignFiles ELSE {<<>>})
    /\ InitRun

NextCampaign ==
    \/ Main
    \/ CampaignLoadAndCleanData
    \/ CampaignCalculateMetrics
    \/ CampaignGenerateVisualizations

SpecCampaign == InitCampaign /\ [][NextCampaign]_vars

\* campaign runs on the files that exercise the per-campaign aggregates
InitCampaignGroups ==
    /\ script = "campaigns"
    /\ fileExists \in BOOLEAN
    /\ csv \in (IF fileExists THEN SeqsUpTo(CampaignRowsGroups, MaxRows) ELSE {<<>>})
    /\ InitRun

SpecCampaignGroups == InitCampaignGroups /\ [][NextCampaign]_vars

\* ======================================================= analyze_customers
\* DataFrame.drop_duplicates: the first of each run of identical rows stays
CustomerDropDuplicates(rows) == Unique(rows)

CustomerDropNa(rows) ==
    SelectSeq(rows, LAMBDA r : r.OrderAmount # NA /\ r.CustomerID # NA)

CustomerFilterAmount(rows) == SelectSeq(rows, LAMBDA r : r.OrderAmount > 0)

\* the two pd.to_datetime assignments
CustomerParseDates(rows) ==
    [i \in 1..Len(rows) |->
        [rows[i] EXCEPT !.OrderDate = ToDatetime(rows[i].OrderDate),
                        !.SignupDate = ToDatetime(rows[i].SignupDate)]]

\* load_and_clean_data on the rows read from the file
CustomerClean(rows) ==
    LET kept == CustomerFilterAmount(CustomerDropNa(CustomerDropDuplicates(rows)))
    IN  IF \E i \in 1..Len(kept) :
              kept[i].OrderDate.fmt = "bad" \/ kept[i].SignupDate.fmt = "bad"
        THEN [ok |-> FALSE, df |-> <<>>]
        ELSE [ok |-> TRUE, df |-> CustomerParseDates(kept)]

\* max of a datetime column, NaT skipped; NaT when nothing is left
MaxDate(cells) ==
    LET ts == {cells[i].t : i \in {j \in 1..Len(cells) : cells[j].fmt = "ts"}}
    IN  IF ts = {} THEN NaT
        ELSE [fmt |-> "ts", t |-> CHOOSE x \in ts : \A y \in ts : y <= x]

\* (current_date - last_order_date).dt.days: whole days, NaN for NaT
DaysBetween(current, last) ==
    IF current.fmt = "NaT" \/ last.fmt = "NaT" THEN NA
    ELSE (current.t - last.t) \div UnitsPerDay

IsChurnedInclusive(days) == days # NA /\ days >= ChurnDays

IsChurned(days) == days # NA /\ days > ChurnDays

RECURSIVE SortInts(_)
SortInts(s) ==
    IF s = <<>> THEN <<>>
    ELSE LET i == CHOOSE j \in 1..Len(s) : \A k \in 1..Len(s) : s[j] <= s[k]
         IN  <<s[i]>> \o SortInts(SubSeq(s, 1, i - 1) \o SubSeq(s, i + 1, Len(s)))

\* Series.quantile(q / 10), linear interpolation: rank = q * (n - 1)
Quantile(values, q) ==
    IF values = <<>> THEN NaN
    ELSE LET s    == SortInts(values)
             rank == q * (Len(s) - 1)
             lo   == (rank \div 10) + 1
             fr   == rank % 10
         IN  IF fr = 0 THEN Rat(s[lo], 1)
             ELSE Rat(10 * s[lo] + (s[lo + 1] - s[lo]) * fr, 10)

InHighStrict(r, high) == FloatLT(high, Rat(r, 1))

InHigh(r, high) == FloatGE(Rat(r, 1), high)

InMediumStrict(r, high, med) == FloatLT(Rat(r, 1), high) /\ FloatLT(med, Rat(r, 1))

InMedium(r, high, med) == FloatLT(Rat(r, 1), high) /\ FloatGE(Rat(r, 1), med)

InLow(r, med) == FloatLT(Rat(r, 1), med)

CustomerMetrics(rows) ==
    LET keys             == GroupKeys(Col(rows, "CustomerID"))
        Group(c)         == SelectSeq(rows, LAMBDA r : r.CustomerID = c)
        active_customers == Len(keys)
        total_revenue    == SumSkipNA(Col(rows, "OrderAmount"))
        order_counts     == [j \in 1..Len(keys) |-> Len(Group(keys[j]))]
        retained         == Len(SelectSeq(order_counts, LAMBDA n : n > 1))
        last_order_date  == [j \in 1..Len(keys) |->
                                MaxDate(Col(Group(keys[j]), "OrderDate"))]
        current_date     == MaxDate(Col(rows, "OrderDate"))
        days_inactive    == [j \in 1..Len(keys) |->
                                DaysBetween(current_date, last_order_date[j])]
        churned          == Len(SelectSeq(days_inactive, IsChurned))
        customer_revenue == [j \in 1..Len(keys) |->
                                SumSkipNA(Col(Group(keys[j]), "OrderAmount"))]
        high_cutoff      == Quantile(customer_revenue, HighQ)
        med_cutoff       == Quantile(customer_revenue, MedQ)
    IN  [ActiveCustomers  |-> active_customers,
         BuyingFrequency  |-> Rat(Len(rows), active_customers),
         TotalRevenue     |-> Rat(total_revenue, 1),
         RetentionRate    |-> Times100(NumpyDiv(retained, active_customers)),
         ChurnRate        |-> Times100(NumpyDiv(churned, active_customers)),
         HighValueCutoff  |-> high_cutoff,
         HighValueCount   |-> Len(SelectSeq(customer_revenue,
                                 LAMBDA r : InHigh(r, high_cutoff))),
         MediumValueCount |-> Len(SelectSeq(customer_revenue,
                                 LAMBDA r : InMedium(r, high_cutoff, med_cutoff))),
         LowValueCount    |-> Len(SelectSeq(customer_revenue,
                                 LAMBDA r : InLow(r, med_cutoff)))]

CustomerLoadAndCleanData ==
    /\ pc = "load"
    /\ script = "customers"
    /\ LET c == CustomerClean(csv)
       IN  /\ df' = c.df
           /\ pc' = IF c.ok THEN "metrics" ELSE "crashed"
           /\ err' = IF c.ok THEN "none" ELSE "to_datetime"
    /\ UNCHANGED <<script, fileExists, csv, metrics, record, charts>>

\* calculate_metrics: len(df) / active_customers is a division of Python
\* ints and raises ZeroDivisionError when no customer is left
CustomerCalculateMetrics ==
    /\ pc = "metrics"
    /\ script = "customers"
    /\ IF GroupKeys(Col(df, "CustomerID")) = <<>>
       THEN /\ pc' = "crashed"
            /\ err' = "ZeroDivisionError"
            /\ UNCHANGED <<metrics, record>>
       ELSE /\ metrics' = CustomerMetrics(df)
            /\ record' = metrics'
            /\ pc' = "viz"
            /\ UNCHANGED err
    /\ UNCHANGED <<script, fileExists, csv, df, charts>>

\* generate_visualizations: five chart files are saved (helper columns Month
\* and DayOfWeek are not represented)
CustomerGenerateVisualizations ==
    /\ pc = "viz"
    /\ script = "customers"
    /\ charts' = 5
    /\ pc' = "done"
    /\ UNCHANGED <<script, fileExists, csv, df, metrics, record, err>>

CustomerRow(id, od, am) ==
    [CustomerID |-> id, OrderDate |-> od, SignupDate |-> GoodDate,
     OrderAmount |-> am, Category |-> "Books"]

\* rows exercising the cleaning policy: one instant in two spellings
CustomerRowsCleaning ==
    {CustomerRow(id, [fmt |-> f, t |-> 0], am) :
        id \in {NA, 1}, f \in {"padded", "unpadded", "bad"}, am \in {NA, 0, 10}}

\* instants 0, 19, 19.5, 20, 190 and 200 days after the first
OrderTimes == {0, 38, 39, 40, 380, 400}

\* rows exercising the churn rule
CustomerRowsChurn ==
    {CustomerRow(id, od, 10) :
        id \in {1, 2},
        od \in {[fmt |-> "padded", t |-> x] : x \in OrderTimes} \cup {NaT}}

\* rows exercising the segmentation
CustomerRowsSegments ==
    {CustomerRow(id, GoodDate, am) : id \in 1..MaxRows, am \in {10, 20, 50}}

CustomerFiles ==
    SeqsUpTo(CustomerRowsCleaning, MaxRows)
        \cup SeqsUpTo(CustomerRowsChurn, MaxRows)
        \cup SeqsUpTo(CustomerRowsSegments, MaxRows)

InitCustomer ==
    /\ script = "customers"
    /\ fileExists \in BOOLEAN
    /\ csv \in (IF fileExists THEN CustomerFiles ELSE {<<>>})
    /\ InitRun

NextCustomer ==
    \/ Main
    \/ CustomerLoadAndCleanData
    \/ CustomerCalculateMetrics
    \/ CustomerGenerateVisualizations

SpecCustomer == InitCustomer /\ [][NextCustomer]_vars

Init == InitCampaign \/ InitCustomer

Next == NextCampaign \/ NextCustomer

Spec == Init /\ [][Next]_vars

\* ================================================================= claims
CampaignKeys ==
    {"CTR", "ConversionRate", "CPL", "ROI", "CAC", "TopCampaign",
     "TopCampaignROI", "BottomCampaign", "BottomCampaignROI"}

CustomerKeys ==
    {"ActiveCustomers", "BuyingFrequency", "TotalRevenue", "RetentionRate",
     "ChurnRate", "HighValueCutoff", "HighValueCount", "MediumValueCount",
     "LowValueCount"}

Cleaned == IF script = "campaigns" THEN CampaignClean(csv) ELSE CustomerClean(csv)

Written == record # NoMetrics

\* C1: in both pipelines a run whose cleaning stage raises computes no metric
\* and writes no metrics record; a record is written only after cleaning has
\* succeeded and every metric has been computed, so it always carries every
\* key of its pipeline.
C1_NoRecordWithoutCleaning ==
    /\ err = "to_datetime" =>
          /\ pc = "crashed"
          /\ metrics = NoMetrics
          /\ record = NoMetrics
    /\ Written =>
          /\ err = "none"
          /\ Cleaned.ok
          /\ df = Cleaned.df
          /\ record = metrics
          /\ DOMAIN record =
                (IF script = "campaigns" THEN CampaignKeys ELSE CustomerKeys)

\* a customer run whose cleaning raised although some row was well formed
C1_Witness ==
    /\ script = "customers"
    /\ pc = "crashed"
    /\ err = "to_datetime"
    /\ \E i \in 1..Len(csv) :
          /\ csv[i].OrderDate.fmt = "padded"
          /\ csv[i].OrderAmount > 0
          /\ csv[i].CustomerID # NA

AllSpendNonPositive ==
    \A i \in 1..Len(csv) : csv[i].Spend = NA \/ csv[i].Spend <= 0

\* C2: when every row of the campaign file has Spend <= 0 or no Spend,
\* cleaning leaves zero rows, the run ends in a raised error (idxmax on the
\* empty ROI column) and neither a metrics dict nor a metrics record exists.
C2_EmptyAfterFilter ==
    (script = "campaigns" /\ fileExists /\ AllSpendNonPositive
        /\ pc \notin {"start", "load"}) =>
          /\ df = <<>>
          /\ pc \in {"metrics", "crashed"}
          /\ pc = "crashed" => err = "idxmax"
          /\ metrics = NoMetrics
          /\ record = NoMetrics

\* the run has crashed on a file holding a zero, a negative and a missing
\* Spend
C2_Witness ==
    /\ script = "campaigns"
    /\ AllSpendNonPositive
    /\ pc = "crashed"
    /\ err = "idxmax"
    /\ {0, -1, NA} \subseteq Range(Col(csv, "Spend"))

\* ---- per-customer facts of the cleaned customer dataset, stated over sets
Customers == {df[i].CustomerID : i \in 1..Len(df)}

RowsOf(c) == {i \in 1..Len(df) : df[i].CustomerID = c}

RECURSIVE SumAmounts(_)
SumAmounts(I) ==
    IF I = {} THEN 0
    ELSE LET i == CHOOSE j \in I : TRUE
         IN  df[i].OrderAmount + SumAmounts(I \ {i})

TotalOf(c) == SumAmounts(RowsOf(c))

CustomerWritten == script = "customers" /\ Written

\* r >= x, r < x for an integer r and a finite rational x
AtLeast(r, x) == r * x.d >= x.n
Below(r, x) == r * x.d < x.n

DatedRows == {i \in 1..Len(df) : df[i].OrderDate.fmt = "ts"}

LastOrder(c) ==
    CHOOSE x \in {df[i].OrderDate.t : i \in RowsOf(c) \cap DatedRows} :
        \A i \in RowsOf(c) \cap DatedRows : df[i].OrderDate.t <= x

DatasetMax ==
    CHOOSE x \in {df[i].OrderDate.t : i \in DatedRows} :
        \A i \in DatedRows : df[i].OrderDate.t <= x

\* the customers whose last order lies at least 181 whole days before the
\* latest order of the dataset
ChurnedCustomers ==
    {c \in Customers :
        /\ RowsOf(c) \cap DatedRows # {}
        /\ DatasetMax - LastOrder(c) >= (ChurnDays + 1) * UnitsPerDay}

C5_CleanIdempotent ==
    (pc \in {"metrics", "viz", "done"} /\ err = "none") =>
       LET again == IF script = "campaigns" THEN CampaignClean(df)
                    ELSE CustomerClean(df)
       IN  again.ok /\ again.df = df

\* the campaign half of C5 alone
C5_CampaignCleanIdempotent ==
    (script = "campaigns" /\ pc \in {"metrics", "viz", "done"} /\ err = "none")
        => CampaignClean(df).ok /\ CampaignClean(df).df = df

\* ---- totals of the cleaned campaign dataset
CampaignWritten == script = "campaigns" /\ Written

\* calculate_metrics has run, to its end or to the error it raised
CampaignComputed ==
    /\ script = "campaigns"
    /\ fileExists
    /\ pc \in {"viz", "done", "crashed"}
    /\ err \in {"none", "idxmax"}

Total(name) == SumSkipNA(Col(df, name))

\* a ratio with a zero denominator total ended in a raised error or in a
\* written value that is nan, inf or -inf
Explicit(key) == pc = "crashed" \/ (Written /\ record[key].k \in {"nan", "inf"})

\* C6: whenever the denominator total of a campaign ratio is zero, the run
\* either raises or reports a non-finite value for that ratio, never 0 or
\* another finite number.
C6_ZeroDenominatorExplicit ==
    CampaignComputed =>
       /\ Total("Impressions") = 0 => Explicit("CTR")
       /\ Total("Clicks") = 0 => Explicit("ConversionRate")
       /\ Total("Conversions") = 0 => Explicit("CPL") /\ Explicit("CAC")
       /\ Total("Spend") = 0 => Explicit("ROI")

\* a written record whose impressions, clicks and conversions all total zero
C6_Witness ==
    /\ CampaignWritten
    /\ Len(df) >= 2
    /\ Total("Impressions") = 0
    /\ Total("Clicks") = 0
    /\ Total("Conversions") = 0
    /\ record.CTR = NaN
    /\ record.CPL = PosInf

InUnitPercent(x) == x.k = "fin" /\ 0 <= x.n /\ x.n <= 100 * x.d

\* the counts of every row are non-negative, as the data model has them
\* (load_and_clean_data does not filter on it)
CountsNonNegative ==
    \A i \in 1..Len(df) : 0 <= df[i].Clicks /\ 0 <= df[i].Impressions

\* C7 as stated: for a cleaned dataset of non-negative counts with
\* Clicks <= Impressions in every row the reported CTR lies in [0, 100].
C7_CtrInRange_Original ==
    (CampaignWritten /\ CountsNonNegative
        /\ \A i \in 1..Len(df) : df[i].Clicks <= df[i].Impressions)
       => InUnitPercent(record.CTR)

\* C7 amended: with 0 <= Clicks <= Impressions in every row and a positive
\* Impressions total the reported CTR lies in [0, 100]; with a zero
\* Impressions total it is nan.
C7_CtrInRange ==
    (CampaignWritten
        /\ \A i \in 1..Len(df) : 0 <= df[i].Clicks /\ df[i].Clicks <= df[i].Impressions)
       => IF Total("Impressions") > 0 THEN InUnitPercent(record.CTR)
          ELSE record.CTR = NaN

\* rows with fewer clicks than impressions giving a CTR strictly inside the
\* interval, one row having no impressions at all
C7_Witness ==
    /\ CampaignWritten
    /\ \A i \in 1..Len(df) : 0 <= df[i].Clicks /\ df[i].Clicks <= df[i].Impressions
    /\ \E i \in 1..Len(df) : df[i].Impressions = 0
    /\ record.CTR = Rat(50, 1)

\* ---- per-campaign facts, stated over sets
CampaignIds == {df[i].CampaignID : i \in 1..Len(df)} \ {NA}

RECURSIVE SumField(_, _)
SumField(I, name) ==
    IF I = {} THEN 0
    ELSE LET i == CHOOSE j \in I : TRUE
         IN  df[i][name] + SumField(I \ {i}, name)

SpendOf(c) == SumField({i \in 1..Len(df) : df[i].CampaignID = c}, "Spend")
RevenueOf(c) == SumField({i \in 1..Len(df) : df[i].CampaignID = c}, "Revenue")

\* ROI(a) <= ROI(b), both group spends being positive
RoiLE(a, b) ==
    (RevenueOf(a) - SpendOf(a)) * SpendOf(b) <= (RevenueOf(b) - SpendOf(b)) * SpendOf(a)

Permuted(rows, p) == [i \in 1..Len(rows) |-> rows[p[i]]]

\* C8: Top Campaign has the largest aggregate ROI and Bottom Campaign the
\* smallest; among tied campaigns the smallest Campaign ID is reported; and
\* every reordering of the rows reports the same two campaigns.
C8_TopBottomDeterministic ==
    CampaignWritten =>
       LET top    == record.TopCampaign
           bottom == record.BottomCampaign
       IN  /\ top \in CampaignIds
           /\ bottom \in CampaignIds
           /\ \A c \in CampaignIds :
                 /\ RoiLE(c, top)
                 /\ RoiLE(bottom, c)
                 /\ RoiLE(top, c) => top <= c
                 /\ RoiLE(c, bottom) => bottom <= c
           /\ \A p \in Permutations(1..Len(df)) :
                 /\ TopCampaign(Permuted(df, p)).CampaignID = top
                 /\ BottomCampaign(Permuted(df, p)).CampaignID = bottom

\* two campaigns with equal ROI, the larger ID appearing first in the file,
\* the smaller ID reported as top and as bottom
C8_Witness ==
    /\ CampaignWritten
    /\ CampaignIds = {1, 2}
    /\ df[1].CampaignID = 2
    /\ RoiLE(1, 2)
    /\ RoiLE(2, 1)
    /\ record.TopCampaign = 1
    /\ record.BottomCampaign = 1

C10_SegmentsPartition ==
    CustomerWritten =>
       LET high == record.HighValueCutoff
           med  == Quantile([j \in 1..Len(SetToSortedSeq(Customers)) |->
                                TotalOf(SetToSortedSeq(Customers)[j])], MedQ)
       IN  /\ record.ActiveCustomers = Cardinality(Customers)
           /\ record.HighValueCount + record.MediumValueCount
                 + record.LowValueCount = record.ActiveCustomers
           /\ record.HighValueCount >= 1
           /\ \A c \in Customers :
                 Cardinality({s \in {"high", "medium", "low"} :
                    \/ s = "high" /\ InHigh(TotalOf(c), high)
                    \/ s = "medium" /\ InMedium(TotalOf(c), high, med)
                    \/ s = "low" /\ InLow(TotalOf(c), med)}) = 1

\* three customers, one in each segment
C10_Witness ==
    /\ CustomerWritten
    /\ record.HighValueCount = 1
    /\ record.MediumValueCount = 1
    /\ record.LowValueCount = 1

====
